---- MODULE Spec2Model ----
(***************************************************************************)
(* Agent.py: the generate -> verify -> retry loop of main(), and the       *)
(* parse() routine of the generated parser (PARSER_TEMPLATE): page-wise    *)
(* table extraction, column alignment against EXPECTED_COLUMNS, and        *)
(* assembly of the result frame.                                           *)
(*                                                                         *)
(* Text is a sequence of one-character strings.  A cell is a tagged        *)
(* record: a str, Python's None, or pandas' NA.  Library calls (pandas,    *)
(* difflib, re, str methods) are modelled by what they compute; pandas     *)
(* semantics are those of the 2.x line (object dtype for str columns).     *)
(***************************************************************************)
EXTENDS Integers, Sequences, FiniteSets, TLC

VARIABLES
    dataFolderExists, pdfExists, csvExists,  \* the file system under data/<target>
    document, golden,                        \* sample.pdf and expected.csv
    pc, attempt, expected_cols, passed,      \* main()
    testWrites, parserFile, exitCode,        \* artifacts written, process exit
    outcomes,                                \* history: result of each cycle
    ppc, pageIdx, tables, emitted,           \* parse(): _extract_tables
    tIdx, candidates, result                 \* parse(): align loop, assembly

vars == <<dataFolderExists, pdfExists, csvExists, document, golden,
          pc, attempt, expected_cols, passed, testWrites, parserFile,
          exitCode, outcomes, ppc, pageIdx, tables, emitted, tIdx,
          candidates, result>>

mainVars == <<pc, attempt, expected_cols, passed, testWrites, parserFile,
              exitCode, outcomes>>

fsVars == <<dataFolderExists, pdfExists, csvExists, document, golden>>

parseVars == <<ppc, pageIdx, tables, emitted, tIdx, candidates, result>>

-----------------------------------------------------------------------------
(* Bounds of the explored inputs. *)

MaxCols == 2

MaxRows == 1

MaxPages == 2

-----------------------------------------------------------------------------
(* Characters and str methods. *)

\* F(v) with v evaluated once, as an assignment to a local does.
Once(v, F(_)) == CHOOSE r \in {F(x) : x \in {v}} : TRUE

SP == " "

TAB == "\t"

NL == "\n"

\* Unicode code points of the characters used, for str comparison.
Code(c) ==
    CASE c = TAB -> 9  [] c = NL -> 10 [] c = SP -> 32 [] c = "<" -> 60
      [] c = ">" -> 62 [] c = "A" -> 65 [] c = "N" -> 78 [] c = "a" -> 97
      [] c = "b" -> 98 [] c = "c" -> 99 [] c = "d" -> 100 [] c = "e" -> 101
      [] c = "n" -> 110 [] c = "o" -> 111 [] c = "r" -> 114 [] c = "w" -> 119
      [] c = "x" -> 120 [] c = "y" -> 121

\* str.isspace for one character (also the regex class \s).
IsSpace(c) == c \in {SP, TAB, NL}

RECURSIVE LStrip(_)
LStrip(s) ==
    IF s # <<>> /\ IsSpace(Head(s)) THEN LStrip(Tail(s)) ELSE s

RECURSIVE RStrip(_)
RStrip(s) ==
    IF s # <<>> /\ IsSpace(s[Len(s)]) THEN RStrip(SubSeq(s, 1, Len(s) - 1)) ELSE s

\* str.strip()
Strip(s) == RStrip(LStrip(s))

\* re.sub(r"\s+", " ", s): every maximal whitespace run becomes one space.
RECURSIVE CollapseWs(_)
CollapseWs(s) ==
    IF s = <<>> THEN <<>>
    ELSE IF IsSpace(Head(s)) THEN <<SP>> \o CollapseWs(LStrip(s))
    ELSE <<Head(s)>> \o CollapseWs(Tail(s))

\* str.splitlines(), line breaks being NL.  A trailing break adds no line.
RECURSIVE SplitLines(_, _)
SplitLines(s, cur) ==
    IF s = <<>> THEN (IF cur = <<>> THEN <<>> ELSE <<cur>>)
    ELSE IF Head(s) = NL THEN <<cur>> \o SplitLines(Tail(s), <<>>)
    ELSE SplitLines(Tail(s), Append(cur, Head(s)))

\* Length of the whitespace run at the head of s.
RECURSIVE WsRun(_)
WsRun(s) ==
    IF s # <<>> /\ IsSpace(Head(s)) THEN 1 + WsRun(Tail(s)) ELSE 0

\* re.split(r"\s{2,}|\t", line): split at runs of two or more whitespace
\* characters, else at a single tab.
RECURSIVE ReSplit(_, _)
ReSplit(s, cur) ==
    IF s = <<>> THEN <<cur>>
    ELSE IF WsRun(s) >= 2
         THEN <<cur>> \o ReSplit(SubSeq(s, WsRun(s) + 1, Len(s)), <<>>)
    ELSE IF Head(s) = TAB THEN <<cur>> \o ReSplit(Tail(s), <<>>)
    ELSE ReSplit(Tail(s), Append(cur, Head(s)))

\* " ".join(parts) for a sequence of str.
RECURSIVE Join(_)
Join(parts) ==
    IF parts = <<>> THEN <<>>
    ELSE IF Len(parts) = 1 THEN parts[1]
    ELSE parts[1] \o <<SP>> \o Join(Tail(parts))

\* x < y for str: lexicographic by code point.
RECURSIVE StrLess(_, _)
StrLess(x, y) ==
    IF y = <<>> THEN FALSE
    ELSE IF x = <<>> THEN TRUE
    ELSE IF Head(x) # Head(y) THEN Code(Head(x)) < Code(Head(y))
    ELSE StrLess(Tail(x), Tail(y))

-----------------------------------------------------------------------------
(* difflib: SequenceMatcher(None, a, b) and get_close_matches. *)

\* Length of the common run of a from i and b from j.
RECURSIVE RunLen(_, _, _, _)
RunLen(a, b, i, j) ==
    IF i <= Len(a) /\ j <= Len(b) /\ a[i] = b[j]
    THEN 1 + RunLen(a, b, i + 1, j + 1) ELSE 0

\* find_longest_match: the longest block; of those the earliest in a; of
\* those the earliest in b.  <<i, j, k>>, k = 0 when nothing matches.
FirstLongest(R) ==
    CHOOSE r \in R : \A o \in R :
      \/ r[3] > o[3]
      \/ r[3] = o[3] /\ (r[1] < o[1] \/ (r[1] = o[1] /\ r[2] <= o[2]))

FindLongestMatch(a, b) ==
    IF a = <<>> \/ b = <<>> THEN <<0, 0, 0>>
    ELSE Once({<<i, j, RunLen(a, b, i, j)>> : i \in 1..Len(a), j \in 1..Len(b)},
              FirstLongest)

\* Sum of the sizes of get_matching_blocks(): the longest block, then the
\* same to its left and to its right.
RECURSIVE Matches(_, _)
MatchesAround(a, b, m) ==
    IF m[3] = 0 THEN 0
    ELSE m[3]
         + Matches(SubSeq(a, 1, m[1] - 1), SubSeq(b, 1, m[2] - 1))
         + Matches(SubSeq(a, m[1] + m[3], Len(a)), SubSeq(b, m[2] + m[3], Len(b)))

Matches(a, b) ==
    Once(FindLongestMatch(a, b), LAMBDA m : MatchesAround(a, b, m))

\* cutoff=0.6 of get_close_matches, as the fraction CutoffNum / CutoffDen.
CutoffNum == 6

CutoffDen == 10

\* ratio() >= cutoff, ratio() = 2.0 * matches / (len(a) + len(b)), and 1.0
\* when both are empty.
RatioAtLeastCutoff(a, b) ==
    IF Len(a) + Len(b) = 0 THEN TRUE
    ELSE CutoffDen * 2 * Matches(a, b) >= CutoffNum * (Len(a) + Len(b))

\* ratio(a, b) < ratio(c, b) for the same word b.
RatioNum(a, b) == IF Len(a) + Len(b) = 0 THEN 2 ELSE 2 * Matches(a, b)

RatioDen(a, b) == IF Len(a) + Len(b) = 0 THEN 2 ELSE Len(a) + Len(b)

RatioLess(a, c, b) == RatioNum(a, b) * RatioDen(c, b) < RatioNum(c, b) * RatioDen(a, b)

\* get_close_matches(word, possibilities, n=1, cutoff=0.6): the candidates
\* at or above the cutoff, the largest (score, x) first.  <<>> or <<x>>.
Largest(cand, word) ==
    IF cand = {} THEN <<>>
    ELSE <<CHOOSE x \in cand : \A z \in cand :
             z = x \/ RatioLess(z, x, word)
                   \/ (~RatioLess(x, z, word) /\ StrLess(z, x))>>

GetCloseMatches(word, possibilities) ==
    Once({possibilities[i] : i \in
            {i \in 1..Len(possibilities) :
               RatioAtLeastCutoff(possibilities[i], word)}},
         LAMBDA cand : Largest(cand, word))

-----------------------------------------------------------------------------
(* Cells and frames. *)

\* A str cell.
S(x) == [k |-> "str", v |-> x]

\* Python's None: an absent cell of an extracted table, and the padding
\* pandas gives a short row.
None == [k |-> "None", v |-> <<>>]

\* pandas.NA: the fill of an expected column that nothing matched.
NA == [k |-> "NA", v |-> <<>>]

IsStr(c) == c.k = "str"

\* str(c)
PyStr(c) ==
    IF c.k = "str" THEN c.v
    ELSE IF c.k = "None" THEN <<"N", "o", "n", "e">>
    ELSE <<"<", "N", "A", ">">>

\* A returned frame, and a raised exception.
Ok(cols, rows) == [ok |-> TRUE, err |-> "", columns |-> cols, rows |-> rows]

Raised(e) == [ok |-> FALSE, err |-> e, columns |-> <<>>, rows |-> <<>>]

Max(m, n) == IF m > n THEN m ELSE n

RECURSIVE MaxWidth(_)
MaxWidth(rows) ==
    IF rows = <<>> THEN 0 ELSE Max(Len(Head(rows)), MaxWidth(Tail(rows)))

\* pd.DataFrame(rows, columns=header) for a list of lists: short rows are
\* padded with None to the widest row; a width other than len(header)
\* raises ValueError.  No rows: an empty frame with the header's columns.
PdDataFrame(rows, header) ==
    IF rows = <<>> THEN Ok(header, <<>>)
    ELSE IF MaxWidth(rows) # Len(header) THEN Raised("ValueError")
    ELSE Ok(header,
            [i \in 1..Len(rows) |->
               [j \in 1..Len(header) |->
                  IF j <= Len(rows[i]) THEN rows[i][j] ELSE None]])

\* The except branch: one column "raw", each row of t joined by a space.
\* str.join raises TypeError on an item that is not a str.
FallbackFrame(t) ==
    IF \E i \in 1..Len(t) : \E j \in 1..Len(t[i]) : ~IsStr(t[i][j])
    THEN Raised("TypeError")
    ELSE Ok(<<S(<<"r", "a", "w">>)>>,
            [i \in 1..Len(t) |->
               <<S(Join([j \in 1..Len(t[i]) |-> t[i][j].v]))>>])

\* re.sub(r"\s+", " ", str(c)).strip()
NormLabel(c) == Strip(CollapseWs(PyStr(c)))

\* Lines 58-66: the frame built from a table, its labels normalised.
DataRows(t) == IF Len(t) > 1 THEN Tail(t) ELSE <<>>

OrFallback(first, t) == IF first.ok THEN first ELSE FallbackFrame(t)

NormalizeColumns(df) ==
    IF ~df.ok THEN df
    ELSE Ok([j \in 1..Len(df.columns) |-> NormLabel(df.columns[j])], df.rows)

BaseFrame(t) ==
    Once(PdDataFrame(DataRows(t), t[1]),
         LAMBDA first : Once(OrFallback(first, t), NormalizeColumns))

\* Lines 68-72: the dict mapping, filled in EXPECTED_COLUMNS order; a key
\* assigned twice keeps the later value.
MapPut(m, match, exp) ==
    IF match = <<>> THEN m
    ELSE [x \in DOMAIN m \cup {match[1]} |-> IF x = match[1] THEN exp ELSE m[x]]

RECURSIVE BuildMapping(_, _, _)
BuildMapping(schema, cols, m) ==
    IF schema = <<>> THEN m
    ELSE Once(GetCloseMatches(Head(schema), cols),
              LAMBDA match :
                Once(MapPut(m, match, Head(schema)),
                     LAMBDA m2 : BuildMapping(Tail(schema), cols, m2)))

EmptyMapping == [x \in {} |-> <<>>]

\* df.rename(columns=mapping)
Rename(cols, m) ==
    [j \in 1..Len(cols) |-> IF cols[j] \in DOMAIN m THEN m[cols[j]] ELSE cols[j]]

\* Lines 76-78: every expected column not among the labels is added, NA in
\* every row.
RECURSIVE AddMissing(_, _, _)
AddMissing(schema, cols, rows) ==
    IF schema = <<>> THEN [columns |-> cols, rows |-> rows]
    ELSE IF \E j \in 1..Len(cols) : cols[j] = Head(schema)
         THEN AddMissing(Tail(schema), cols, rows)
    ELSE AddMissing(Tail(schema), Append(cols, Head(schema)),
                    [i \in 1..Len(rows) |-> Append(rows[i], NA)])

\* The positions of the columns labelled name, in order.
RECURSIVE Positions(_, _, _)
Positions(cols, name, j) ==
    IF j > Len(cols) THEN <<>>
    ELSE (IF cols[j] = name THEN <<j>> ELSE <<>>) \o Positions(cols, name, j + 1)

RECURSIVE SelectPositions(_, _)
SelectPositions(schema, cols) ==
    IF schema = <<>> THEN <<>>
    ELSE Positions(cols, Head(schema), 1) \o SelectPositions(Tail(schema), cols)

\* df[EXPECTED_COLUMNS]: for each expected name every column carrying that
\* label, so a label carried twice is selected twice.
TakeColumns(pos, cols, rows) ==
    Ok([n \in 1..Len(pos) |-> cols[pos[n]]],
       [i \in 1..Len(rows) |-> [n \in 1..Len(pos) |-> rows[i][pos[n]]]])

Project(schema, f) ==
    Once(SelectPositions(schema, f.columns),
         LAMBDA pos : TakeColumns(pos, f.columns, f.rows))

\* Lines 67-79 on the frame with normalised labels.
AlignFrame(df, schema) ==
    IF ~df.ok THEN df
    ELSE Once(BuildMapping(schema, df.columns, EmptyMapping),
              LAMBDA mapping :
                Once(AddMissing(schema, Rename(df.columns, mapping), df.rows),
                     LAMBDA full : Project(schema, full)))

\* Lines 58-79: one table aligned to the expected columns.
Align(t, schema) == Once(BaseFrame(t), LAMBDA df : AlignFrame(df, schema))

HasDuplicates(cols) ==
    \E i, j \in 1..Len(cols) : i < j /\ cols[i] = cols[j]

RECURSIVE ConcatRows(_)
ConcatRows(frames) ==
    IF frames = <<>> THEN <<>> ELSE Head(frames).rows \o ConcatRows(Tail(frames))

\* astype(str).str.strip() on an object column.
StrStrip(c) == S(Strip(PyStr(c)))

\* Lines 81-88.  Every column is of object dtype (str, None and NA cells), so
\* each is cast and stripped.  A label carried twice makes result[c] a frame,
\* which has no .str: AttributeError (or concat fails before on it).
StripRows(rows) ==
    [i \in 1..Len(rows) |-> [j \in 1..Len(rows[i]) |-> StrStrip(rows[i][j])]]

Assemble(cands, schema) ==
    IF cands = <<>> THEN Ok(schema, <<>>)
    ELSE IF \E i \in 1..Len(cands) : HasDuplicates(cands[i].columns)
         THEN Raised("AttributeError")
    ELSE Ok(cands[1].columns, Once(ConcatRows(cands), StripRows))

\* Lines 37-48: what one page adds to tables; <<>> or one table.
NotBlank(l) == Strip(l) # <<>>

StripEach(ls) == [i \in 1..Len(ls) |-> Strip(ls[i])]

\* [line.strip() for line in text.splitlines() if line.strip()]
NonEmptyLines(text) ==
    Once(SelectSeq(SplitLines(text, <<>>), NotBlank), StripEach)

AsCells(tok) == [j \in 1..Len(tok) |-> S(tok[j])]

\* [re.split(r"\s{2,}|\t", line) for line in lines]
TokenRows(lines) == [i \in 1..Len(lines) |-> AsCells(ReSplit(lines[i], <<>>))]

TextTable(lines) == IF lines # <<>> THEN <<TokenRows(lines)>> ELSE <<>>

\* ExtractPage without the else: the text is read as well as the table.
ExtractPageBoth(p) ==
    (IF p.hasTable /\ p.table # <<>> THEN <<p.table>> ELSE <<>>)
    \o (IF p.hasText /\ p.text # <<>> THEN TextTable(NonEmptyLines(p.text)) ELSE <<>>)

ExtractPage(p) ==
    IF p.hasTable /\ p.table # <<>> THEN <<p.table>>
    ELSE IF p.hasText /\ p.text # <<>> THEN Once(NonEmptyLines(p.text), TextTable)
    ELSE <<>>

RECURSIVE ExtractPages(_)
ExtractPages(pages) ==
    IF pages = <<>> THEN <<>>
    ELSE ExtractPage(Head(pages)) \o ExtractPages(Tail(pages))

\* The align loop of parse() from table n on; the first exception ends it.
RECURSIVE AlignAll(_, _, _, _)
AlignStep(ts, schema, n, acc, a) ==
    IF ~a.ok THEN [ok |-> FALSE, err |-> a.err, frames |-> acc]
    ELSE AlignAll(ts, schema, n + 1, Append(acc, a))

AlignAll(ts, schema, n, acc) ==
    IF n > Len(ts) THEN [ok |-> TRUE, err |-> "", frames |-> acc]
    ELSE Once(Align(ts[n], schema), LAMBDA a : AlignStep(ts, schema, n, acc, a))

AssembleAligned(a, schema) ==
    IF ~a.ok THEN Raised(a.err) ELSE Assemble(a.frames, schema)

\* parse(pdf_path) of the parser written with EXPECTED_COLUMNS = schema.
\* pdfplumber.open raises on a file it cannot read.
Parse(doc, schema) ==
    IF ~doc.readable THEN Raised("PDFSyntaxError")
    ELSE Once(ExtractPages(doc.pages),
              LAMBDA ts :
                Once(AlignAll(ts, schema, 1, <<>>),
                     LAMBDA a : AssembleAligned(a, schema)))

\* df.astype(str).apply(lambda col: col.str.strip())
NormalizeFrame(cols, rows) ==
    [columns |-> cols,
     rows |-> [i \in 1..Len(rows) |->
                 [j \in 1..Len(rows[i]) |-> StrStrip(rows[i][j])]]]

\* test_parse_matches_expected: "error" when parse raises, else whether the
\* normalised frames are equal.
CompareFrames(actual, gold) ==
    IF ~actual.ok THEN "error"
    ELSE IF NormalizeFrame(actual.columns, actual.rows)
              = NormalizeFrame(gold.columns, gold.rows)
         THEN "pass" ELSE "mismatch"

TestOutcome(doc, schema, gold) ==
    Once(Parse(doc, schema), LAMBDA actual : CompareFrames(actual, gold))

-----------------------------------------------------------------------------
(* The inputs explored. *)

ab == <<"a", "b">>

abc == <<"a", "b", "c">>

abd == <<"a", "b", "d">>

rw == <<"r", "w">>

y == <<"y">>

SeqsUpTo(X, lo, hi) == UNION {[1..n -> X] : n \in lo..hi}

\* Header labels: absent, exact, equal to another after normalisation, near.
Labels == {None, S(ab), S(<<SP>> \o ab), S(abd)}

Cells == {S(<<SP>> \o y), None}

RawTables ==
    {<<h>> \o r : h \in SeqsUpTo(Labels, 1, MaxCols),
                  r \in SeqsUpTo(SeqsUpTo(Cells, 1, MaxCols), 0, MaxRows)}

NoText == <<>>

\* "ab y" NL "y": single spaces split nothing.
TextPlain == ab \o <<SP>> \o y \o <<NL>> \o y

\* "ab  abd" NL " y" TAB "y" NL: two token rows of two tokens.
TextColumns == ab \o <<SP, SP>> \o abd \o <<NL, SP>> \o y \o <<TAB>> \o y \o <<NL>>

\* Whitespace only: text, but no non-empty line.
TextBlank == <<SP, NL, TAB>>

Page(ht, t, hx, x) == [hasTable |-> ht, table |-> t, hasText |-> hx, text |-> x]

TablePages == {Page(TRUE, t, TRUE, TextPlain) : t \in RawTables}

SimplePages ==
    { Page(TRUE, <<<<S(ab), S(abd)>>, <<S(<<SP>> \o y), S(<<SP>> \o y)>>>>, TRUE, TextPlain),
      Page(FALSE, <<>>, TRUE, TextColumns),
      Page(TRUE, <<>>, TRUE, TextPlain),
      Page(FALSE, <<>>, TRUE, TextBlank),
      Page(FALSE, <<>>, FALSE, NoText),
      Page(TRUE, <<<<S(ab)>>, <<S(y), None>>>>, FALSE, NoText) }

Unreadable == [readable |-> FALSE, pages |-> <<>>]

Doc(pages) == [readable |-> TRUE, pages |-> pages]

\* The documents main() is run on.
OrchDocuments ==
    {Unreadable} \cup {Doc(ps) : ps \in SeqsUpTo(SimplePages, 0, MaxPages)}

\* The documents parse() is run on.
Documents == OrchDocuments \cup {Doc(<<p>>) : p \in TablePages}

\* expected.csv as read_csv returns it; its header is the Schema.
Goldens ==
    { [columns |-> <<abd, abc>>, rows |-> <<<<S(y), S(y)>>>>],
      [columns |-> <<abd, abc>>, rows |-> <<<<S(y), S(y)>>, <<S(y), S(y)>>>>],
      [columns |-> <<ab>>, rows |-> <<<<S(y)>>>>],
      [columns |-> <<ab, abc>>, rows |-> <<<<S(y), S(y)>>>>],
      [columns |-> <<rw>>, rows |-> <<<<S(ab \o <<SP>> \o y)>>, <<S(y)>>>>] }

-----------------------------------------------------------------------------
(* main() *)

max_attempts == 3

ParseIdle ==
    /\ ppc = "idle" /\ pageIdx = 0 /\ tables = <<>> /\ emitted = <<>>
    /\ tIdx = 0 /\ candidates = <<>> /\ result = Raised("")

\* The state at the start of main(): any file system under data/<target>.
Init ==
    /\ dataFolderExists \in BOOLEAN
    /\ pdfExists \in BOOLEAN
    /\ csvExists \in BOOLEAN
    /\ (~dataFolderExists => ~pdfExists /\ ~csvExists)
    /\ document \in OrchDocuments
    /\ golden \in Goldens
    /\ pc = "check_folder"
    /\ attempt = 0
    /\ expected_cols = <<>>
    /\ passed = FALSE
    /\ testWrites = 0
    /\ parserFile = [writes |-> 0, columns |-> <<>>]
    /\ exitCode = -1
    /\ outcomes = <<>>
    /\ ParseIdle

\* Lines 149-151.
CheckDataFolder ==
    /\ pc = "check_folder"
    /\ IF ~dataFolderExists
       THEN pc' = "exited" /\ exitCode' = 2
       ELSE pc' = "check_files" /\ exitCode' = exitCode
    /\ UNCHANGED <<attempt, expected_cols, passed, testWrites, parserFile, outcomes>>
    /\ UNCHANGED <<fsVars, parseVars>>

\* CheckFiles forgetting expected.csv.
CheckFilesPdfOnly ==
    /\ pc = "check_files"
    /\ IF ~pdfExists
       THEN pc' = "exited" /\ exitCode' = 2
       ELSE pc' = "infer" /\ exitCode' = exitCode
    /\ UNCHANGED <<attempt, expected_cols, passed, testWrites, parserFile, outcomes>>
    /\ UNCHANGED <<fsVars, parseVars>>

\* Lines 152-154.
CheckFiles ==
    /\ pc = "check_files"
    /\ IF ~pdfExists \/ ~csvExists
       THEN pc' = "exited" /\ exitCode' = 2
       ELSE pc' = "infer" /\ exitCode' = exitCode
    /\ UNCHANGED <<attempt, expected_cols, passed, testWrites, parserFile, outcomes>>
    /\ UNCHANGED <<fsVars, parseVars>>

\* Line 156, infer_expected_columns: the header of expected.csv.
InferExpectedColumns ==
    /\ pc = "infer"
    /\ expected_cols' = golden.columns
    /\ pc' = "write_test"
    /\ UNCHANGED <<attempt, passed, testWrites, parserFile, exitCode, outcomes>>
    /\ UNCHANGED <<fsVars, parseVars>>

\* Line 160, write_test.
WriteTest ==
    /\ pc = "write_test"
    /\ testWrites' = testWrites + 1
    /\ pc' = "loop"
    /\ UNCHANGED <<attempt, expected_cols, passed, parserFile, exitCode, outcomes>>
    /\ UNCHANGED <<fsVars, parseVars>>

\* ForAttempt with range(1, max_attempts + 2).
ForAttemptOffByOne ==
    /\ pc = "loop"
    /\ IF attempt <= max_attempts
       THEN attempt' = attempt + 1 /\ pc' = "write_parser" /\ exitCode' = exitCode
       ELSE attempt' = attempt /\ pc' = "aborted" /\ exitCode' = 1
    /\ UNCHANGED <<expected_cols, passed, testWrites, parserFile, outcomes>>
    /\ UNCHANGED <<fsVars, parseVars>>

\* Line 163 and the loop's else clause, lines 172-174: the next value of
\* range(1, max_attempts + 1), or FAILED and exit 1 when it is exhausted.
ForAttempt ==
    /\ pc = "loop"
    /\ IF attempt < max_attempts
       THEN attempt' = attempt + 1 /\ pc' = "write_parser" /\ exitCode' = exitCode
       ELSE attempt' = attempt /\ pc' = "aborted" /\ exitCode' = 1
    /\ UNCHANGED <<expected_cols, passed, testWrites, parserFile, outcomes>>
    /\ UNCHANGED <<fsVars, parseVars>>

\* A synthesis that differs between attempts: the first one loses a column.
SynthesizedColumnsDrift(cols, n) == IF n = 1 THEN Tail(cols) ELSE cols

\* EXPECTED_COLUMNS of the parser text write_parser formats.
SynthesizedColumns(cols, n) == cols

\* Line 165, write_parser: the parser file is overwritten.
WriteParser ==
    /\ pc = "write_parser"
    /\ parserFile' = [writes |-> parserFile.writes + 1,
                      columns |-> SynthesizedColumns(expected_cols, attempt)]
    /\ pc' = "run_pytest"
    /\ UNCHANGED <<attempt, expected_cols, passed, testWrites, exitCode, outcomes>>
    /\ UNCHANGED <<fsVars, parseVars>>

\* RunPytest calling parse() in-process: its exception leaves main().
RunPytestUncaught ==
    /\ pc = "run_pytest"
    /\ outcomes' = Append(outcomes,
                          IF testWrites = 0 THEN "no_test"
                          ELSE TestOutcome(document, parserFile.columns, golden))
    /\ passed' = (outcomes'[Len(outcomes')] = "pass")
    /\ pc' = IF outcomes'[Len(outcomes')] = "error" THEN "crashed" ELSE "decide"
    /\ UNCHANGED <<attempt, expected_cols, testWrites, parserFile, exitCode>>
    /\ UNCHANGED <<fsVars, parseVars>>

\* Line 166, run_pytest_for_target: pytest in a subprocess on the written
\* test; a failing test and a test that raises both end pytest non-zero,
\* which subprocess.run(check=True) turns into CalledProcessError.
RunPytest ==
    /\ pc = "run_pytest"
    /\ outcomes' = Append(outcomes,
                          IF testWrites = 0 THEN "no_test"
                          ELSE TestOutcome(document, parserFile.columns, golden))
    /\ passed' = (outcomes'[Len(outcomes')] = "pass")
    /\ pc' = "decide"
    /\ UNCHANGED <<attempt, expected_cols, testWrites, parserFile, exitCode>>
    /\ UNCHANGED <<fsVars, parseVars>>

\* Decide without the break: the loop goes on after a pass.
DecideNoBreak ==
    /\ pc = "decide"
    /\ pc' = "loop"
    /\ UNCHANGED <<attempt, expected_cols, passed, testWrites, parserFile,
                   exitCode, outcomes>>
    /\ UNCHANGED <<fsVars, parseVars>>

\* Lines 167-171: break on success, else the next iteration.
Decide ==
    /\ pc = "decide"
    /\ IF passed
       THEN pc' = "done" /\ exitCode' = 0
       ELSE pc' = "loop" /\ exitCode' = exitCode
    /\ UNCHANGED <<attempt, expected_cols, passed, testWrites, parserFile, outcomes>>
    /\ UNCHANGED <<fsVars, parseVars>>

MainNext ==
    \/ CheckDataFolder
    \/ CheckFiles
    \/ InferExpectedColumns
    \/ WriteTest
    \/ ForAttempt
    \/ WriteParser
    \/ RunPytest
    \/ Decide

Next == MainNext

\* main() on files nothing else touches while it runs.
Spec == Init /\ [][Next]_vars

\* sample.pdf is rewritten from outside between two attempts.
ReplaceDocument ==
    /\ pc = "loop"
    /\ attempt \in 1..(max_attempts - 1)
    /\ document' \in {Unreadable, Doc(<<>>)}
                     \cup {Doc(<<p>>) : p \in {q \in SimplePages : ~q.hasTable}}
    /\ document' # document
    /\ UNCHANGED <<dataFolderExists, pdfExists, csvExists, golden>>
    /\ UNCHANGED <<mainVars, parseVars>>

NextEnv == MainNext \/ ReplaceDocument

\* main() with the document changing under it: every sequence of
\* verification outcomes occurs.
SpecEnv == Init /\ [][NextEnv]_vars

\* main() is sequential code: a step that can be taken is taken.
FairSpecEnv == SpecEnv /\ WF_vars(MainNext)

-----------------------------------------------------------------------------
(* parse() of the written parser, step by step, as the test calls it. *)

\* One golden file for each Schema.
ParseGoldens == {g \in Goldens : Len(g.rows) = 1 \/ g.columns = <<rw>>}

\* The state when the test calls parse(): the inputs exist, the test and the
\* parser have been written with EXPECTED_COLUMNS = the golden header.
ParseInit ==
    /\ dataFolderExists = TRUE
    /\ pdfExists = TRUE
    /\ csvExists = TRUE
    /\ document \in Documents
    /\ golden \in ParseGoldens
    /\ pc = "run_pytest"
    /\ attempt = 1
    /\ expected_cols = golden.columns
    /\ passed = FALSE
    /\ testWrites = 1
    /\ parserFile = [writes |-> 1, columns |-> golden.columns]
    /\ exitCode = -1
    /\ outcomes = <<>>
    /\ ppc = "open"
    /\ pageIdx = 0
    /\ tables = <<>>
    /\ emitted = <<>>
    /\ tIdx = 0
    /\ candidates = <<>>
    /\ result = Raised("")

\* Line 34: pdfplumber.open.
OpenDocument ==
    /\ ppc = "open"
    /\ IF document.readable
       THEN ppc' = "extract" /\ pageIdx' = 1 /\ result' = result
       ELSE ppc' = "raised" /\ pageIdx' = pageIdx /\ result' = Raised("PDFSyntaxError")
    /\ UNCHANGED <<tables, emitted, tIdx, candidates>>
    /\ UNCHANGED <<fsVars, mainVars>>

\* Lines 35-48: one iteration of the page loop.  emitted records how many
\* tables each page added.
ExtractNextPage ==
    /\ ppc = "extract"
    /\ pageIdx <= Len(document.pages)
    /\ tables' = tables \o ExtractPage(document.pages[pageIdx])
    /\ emitted' = Append(emitted, Len(tables') - Len(tables))
    /\ pageIdx' = pageIdx + 1
    /\ UNCHANGED <<ppc, tIdx, candidates, result>>
    /\ UNCHANGED <<fsVars, mainVars>>

\* Lines 49 and 52-53: _extract_tables returns.
ReturnTables ==
    /\ ppc = "extract"
    /\ pageIdx > Len(document.pages)
    /\ ppc' = "align"
    /\ tIdx' = 1
    /\ UNCHANGED <<pageIdx, tables, emitted, candidates, result>>
    /\ UNCHANGED <<fsVars, mainVars>>

AlignedInto(a) ==
    IF a.ok
    THEN candidates' = Append(candidates, a) /\ tIdx' = tIdx + 1
         /\ ppc' = ppc /\ result' = result
    ELSE candidates' = candidates /\ tIdx' = tIdx
         /\ ppc' = "raised" /\ result' = Raised(a.err)

\* Lines 54-80: one iteration of the table loop; an exception ends parse().
AlignNextTable ==
    /\ ppc = "align"
    /\ tIdx <= Len(tables)
    /\ IF tables[tIdx] = <<>>
       THEN tIdx' = tIdx + 1 /\ UNCHANGED <<candidates, ppc, result>>
       ELSE AlignedInto(Align(tables[tIdx], parserFile.columns))
    /\ UNCHANGED <<pageIdx, tables, emitted>>
    /\ UNCHANGED <<fsVars, mainVars>>

\* Lines 81-88.
AssembleResult ==
    /\ ppc = "align"
    /\ tIdx > Len(tables)
    /\ result' = Assemble(candidates, parserFile.columns)
    /\ ppc' = IF result'.ok THEN "returned" ELSE "raised"
    /\ UNCHANGED <<pageIdx, tables, emitted, tIdx, candidates>>
    /\ UNCHANGED <<fsVars, mainVars>>

ParseNext ==
    \/ OpenDocument
    \/ ExtractNextPage
    \/ ReturnTables
    \/ AlignNextTable
    \/ AssembleResult

ParseSpec == ParseInit /\ [][ParseNext]_vars

\* The steps of parse() compute what Parse computes.
ParseAgrees ==
    ppc \in {"returned", "raised"} => result = Parse(document, parserFile.columns)

-----------------------------------------------------------------------------
(* Properties of main(). *)

Last(q) == q[Len(q)]

InputsPresent == dataFolderExists /\ pdfExists /\ csvExists

Terminal == pc \in {"done", "aborted"}

NoPass == \A i \in 1..Len(outcomes) : outcomes[i] # "pass"

C4_MissingInputsExit2 ==
    ~InputsPresent =>
      /\ pc \in {"check_folder", "check_files", "exited"}
      /\ (pc = "exited" <=> exitCode = 2)
      /\ exitCode \in {-1, 2}
      /\ attempt = 0
      /\ outcomes = <<>>
      /\ testWrites = 0
      /\ parserFile.writes = 0

\* The run has ended on a missing golden file.
C4_Witness ==
    /\ dataFolderExists /\ pdfExists /\ ~csvExists
    /\ pc = "exited"
    /\ exitCode = 2

C5_State ==
    /\ pc \in {"check_folder", "check_files", "exited", "infer", "write_test",
               "loop", "write_parser", "run_pytest", "decide", "done", "aborted"}
    /\ (pc \in {"decide", "loop", "done", "aborted"} /\ outcomes # <<>>
          => Len(outcomes) = attempt)
    /\ (outcomes # <<>> /\ Last(outcomes) = "error" => ~passed /\ pc # "done")
    /\ (exitCode # -1 /\ outcomes # <<>> => Terminal)

C5_Step ==
    outcomes # <<>> /\ Last(outcomes) = "error" /\ mainVars' # mainVars =>
      \/ pc = "decide" /\ pc' = "loop" /\ attempt' = attempt /\ exitCode' = -1
      \/ pc = "loop" /\ attempt < max_attempts /\ pc' = "write_parser"
           /\ attempt' = attempt + 1 /\ exitCode' = -1
      \/ pc = "loop" /\ attempt = max_attempts /\ pc' = "aborted" /\ exitCode' = 1
      \/ pc \in {"write_parser", "run_pytest"}

C6_State ==
    /\ (pc = "done" => exitCode = 0 /\ outcomes # <<>> /\ Last(outcomes) = "pass")
    /\ (pc = "aborted" => exitCode = 1 /\ NoPass)
    /\ (exitCode \in {0, 1} => Terminal)
    /\ (~NoPass => pc \in {"decide", "done"} /\ Last(outcomes) = "pass"
                   /\ \A i \in 1..(Len(outcomes) - 1) : outcomes[i] # "pass")

BlankDocument ==
    document.readable /\ document.pages # <<>> /\ ExtractPages(document.pages) = <<>>

-----------------------------------------------------------------------------
(* Properties of parse(). *)

Schema == parserFile.columns

\* The tables aligned so far; candidates[n] comes from tables[n].
Aligned == 1..Len(candidates)

\* C2: every aligned table has exactly the Schema's columns, in order.
C2_AlignedColumnsAreSchema ==
    \A n \in Aligned : candidates[n].columns = Schema

\* A data row whose width is not the header's.
NonConforming(t) == \E i \in 2..Len(t) : Len(t[i]) # Len(t[1])

\* C3: a table with a data row that does not conform to the header width
\* never makes the align step raise; it is aligned through the joined-text
\* fallback (one frame row for each table row, the header included) and has
\* the Schema's columns.
C3_RaggedTableNeverRaises ==
    /\ ~(ppc = "raised" /\ tIdx \in 1..Len(tables) /\ NonConforming(tables[tIdx]))
    /\ \A n \in Aligned : NonConforming(tables[n]) =>
         /\ candidates[n].columns = Schema
         /\ Len(candidates[n].rows) = Len(tables[n])

RowsBeforeTrim == ConcatRows(candidates)

\* C7: trimming changes str cells only: a cell that is None or NA before the
\* trim is the same None or NA in the returned table.
C7_TrimKeepsNullCells ==
    ppc = "returned" /\ candidates # <<>> =>
      \A i \in 1..Len(RowsBeforeTrim) : \A j \in 1..Len(RowsBeforeTrim[i]) :
        ~IsStr(RowsBeforeTrim[i][j]) => result.rows[i][j] = RowsBeforeTrim[i][j]

ColumnOf(rows, j) == [i \in 1..Len(rows) |-> rows[i][j]]

IndexOf(cols, name) == CHOOSE j \in 1..Len(cols) : cols[j] = name

AllNA(col) == \A i \in 1..Len(col) : col[i] = NA

CarriesBestMatch(cand, base, k) ==
    IF GetCloseMatches(Schema[k], base.columns) = <<>>
    THEN AllNA(ColumnOf(cand.rows, k))
    ELSE ColumnOf(cand.rows, k)
           = ColumnOf(base.rows,
                      IndexOf(base.columns, GetCloseMatches(Schema[k], base.columns)[1]))

\* C9, for tables whose normalised labels are all different: every Schema
\* column with a label at or above the cutoff carries the values of its best
\* match, and exactly the Schema columns without one are NA.
C9_MatchedColumnsCarryBestMatch ==
    \A n \in Aligned :
      ~HasDuplicates(BaseFrame(tables[n]).columns) /\ candidates[n].columns = Schema =>
        \A k \in 1..Len(Schema) : CarriesBestMatch(candidates[n], BaseFrame(tables[n]), k)

RECURSIVE Sum(_)
Sum(q) == IF q = <<>> THEN 0 ELSE Head(q) + Sum(Tail(q))

\* The tables page i added.
TablesOfPage(i) ==
    SubSeq(tables, Sum(SubSeq(emitted, 1, i - 1)) + 1, Sum(SubSeq(emitted, 1, i)))

HasStructuredTable(p) == p.hasTable /\ p.table # <<>>

HasTextLine(p) ==
    p.hasText /\ \E i \in 1..Len(SplitLines(p.text, <<>>)) :
                    Strip(SplitLines(p.text, <<>>)[i]) # <<>>

PageContribution(i, p) ==
    /\ emitted[i] <= 1
    /\ (HasStructuredTable(p) => TablesOfPage(i) = <<p.table>>)
    /\ (~HasStructuredTable(p) /\ HasTextLine(p)
          => TablesOfPage(i) = <<TokenRows(NonEmptyLines(p.text))>>)
    /\ (~HasStructuredTable(p) /\ ~HasTextLine(p) => TablesOfPage(i) = <<>>)

====
